---- MODULE Spec2Model ----
(***************************************************************************)
(* Model of src/api-integration.js: the GEEApiClient transport wrapper,    *)
(* the orchestration functions built on it, and the session state they     *)
(* share (currentAOI, analysisResults, the loading indicator, the two      *)
(* selectors).                                                             *)
(*                                                                         *)
(* JavaScript runs every handler to completion between two suspension      *)
(* points.  The only suspension that lets another handler run is the       *)
(* network call of GEEApiClient.request, so one action is one segment:     *)
(* from the call of a function to its first $.ajax, or from the settling   *)
(* of a $.ajax to the next $.ajax or to the return.                        *)
(***************************************************************************)
EXTENDS Integers, FiniteSets, Sequences, TLC

\* Number of invocations that may be outstanding at once (nothing in the
\* code guards against a second invocation while one awaits its response).
MaxTasks == 2

\* Number of calls of updateEventHandlersForAPI that are followed.
MaxWirings == 2

\* API_CONFIG.retries
API_CONFIG_retries == 3

Tasks == 1..MaxTasks

\* Backend data: province codes, and the city codes of each province.
ProvinceCodes == {"P1", "P2"}
CitiesOf(p) == IF p = "P1" THEN <<"C1">> ELSE <<"C2">>
ProvinceList == <<"P1", "P2">>

\* The endpoint methods of GEEApiClient.
EndpointMethods ==
    {"healthCheck", "getProvinces", "getCities", "getRegionGeometry",
     "analyzeVegetation", "analyzeLandCover", "analyzeTimeSeries", "exportToDrive"}

\* What loadRegionGeometryFromAPI may be asked for: (endpoint, code).
RegionRequests == {<<"province", "P1">>, <<"city", "C2">>}

AnalysisTypes == {"vegetation", "landcover", "combined"}

NullAOI == "null"
NoArg == "-"

\* The display name the backend gives a region.
NameOf(code) ==
    CASE code = "P1" -> "Province One"
      [] code = "P2" -> "Province Two"
      [] code = "C1" -> "City One"
      [] OTHER -> "City Two"

\* The controls updateEventHandlersForAPI wires.
Controls == {"provinceSelect", "loadRegion", "runAnalysis", "downloadStats"}

VARIABLES
    currentAOI,       \* NullAOI, or the code of the loaded region
    analysisResults,  \* the results accumulator: key -> AOI it was computed for
    loadingVisible,   \* the loading indicator (showLoading / hideLoading)
    provinceSelect,   \* option values of #provinceSelect
    citySelect,       \* option values of #citySelect
    drawnItems,       \* layers of the drawn-items group of the map
    inflight,         \* $.ajax calls on the network
    task,             \* the outstanding invocations of orchestration functions
    returned,         \* the invocation that returned in the last step, with its log
    client,           \* a call of an endpoint method of window.GEEApi.client
    currentAOI_name,  \* currentAOI.name
    provinceValue,    \* $('#provinceSelect').val()
    cityValue,        \* $('#citySelect').val()
    cityDisabled,     \* the disabled property of #citySelect
    handlers,         \* number of jQuery handlers attached to each control
    wirings,          \* calls of updateEventHandlersForAPI so far
    boot              \* the first $(document).ready handler

\* The state of the page outside the orchestration functions.
page == <<currentAOI_name, provinceValue, cityValue, cityDisabled, handlers, wirings,
          boot>>

vars == <<currentAOI, analysisResults, loadingVisible, provinceSelect, citySelect,
          drawnItems, inflight, task, returned, client, page>>

----------------------------------------------------------------------------
(* JavaScript values, as far as request() looks at them *)

Undefined == [t |-> "undefined", v |-> ""]
Str(s) == [t |-> "string", v |-> s]

\* JS truthiness: undefined and the empty string are falsy.
Truthy(x) == x.t = "string" /\ x.v # ""

\* a || b
JsOr(a, b) == IF Truthy(a) THEN a ELSE b

\* The responseJSON of a failed jqXHR: absent, or an object whose `error`
\* field is absent, empty or a message.
ResponseJSONs ==
    { [json |-> FALSE, error |-> Undefined],
      [json |-> TRUE, error |-> Undefined],
      [json |-> TRUE, error |-> Str("")],
      [json |-> TRUE, error |-> Str("Bad AOI")] }

StatusTexts == {Str(""), Str("timeout"), Str("Not Found")}

\* Outcomes of one $.ajax call: fulfilled with the parsed body (null for an
\* empty or `null` body), or rejected with the jqXHR.
Outcomes ==
    { [kind |-> "ok", body |-> b, responseJSON |-> [json |-> FALSE, error |-> Undefined],
       statusText |-> Str("success")] : b \in {"null", "object"} }
    \cup
    { [kind |-> "fail", body |-> "null", responseJSON |-> rj, statusText |-> st] :
        rj \in ResponseJSONs, st \in StatusTexts }

\* error.responseJSON?.error
OptError(rj) == IF rj.json THEN rj.error ELSE Undefined

Return(v) == [type |-> "return", value |-> v]
Throw == [type |-> "throw"]

----------------------------------------------------------------------------
(* GEEApiClient.request *)

\* Mutant of ErrorText: the status text is tried before the body's error.
ErrorTextStatusFirst(o) ==
    JsOr(JsOr(o.statusText, OptError(o.responseJSON)), Str("Network error"))

\* The catch block of request(): the error text, by `||` fallback.
ErrorText(o) ==
    JsOr(JsOr(OptError(o.responseJSON), o.statusText), Str("Network error"))

\* Mutant of request: no catch block, a rejected $.ajax is thrown on.
requestWithoutCatch(o) ==
    IF o.kind = "ok" THEN Return([success |-> TRUE, data |-> o.body]) ELSE Throw

\* How request() completes for an outcome of its $.ajax call.
request(o) ==
    IF o.kind = "ok"
    THEN Return([success |-> TRUE, data |-> o.body])
    ELSE Return([success |-> FALSE, error |-> ErrorText(o)])

\* Mutant of ShouldRetry: a failed call is retried, API_CONFIG.retries times.
RetryUpToConfig(o, n) == o.kind = "fail" /\ n <= API_CONFIG_retries

\* Whether request() issues its $.ajax again after outcome o of attempt n:
\* the catch block returns at once and API_CONFIG.retries is never read.
ShouldRetry(o, n) == FALSE

ClientIdle == [pc |-> "idle", method |-> "-", ajax |-> 0]

\* An endpoint method is called: it calls request() once, which issues its
\* $.ajax and suspends.
client_call(m) ==
    /\ client.pc # "await"
    /\ client' = [pc |-> "await", method |-> m, ajax |-> 1]
    /\ UNCHANGED <<currentAOI, analysisResults, loadingVisible, provinceSelect,
                   citySelect, drawnItems, inflight, task, returned>>
    /\ UNCHANGED page

\* The $.ajax settles with outcome o and the endpoint method completes.
client_settle(o) ==
    /\ client.pc = "await"
    /\ IF ShouldRetry(o, client.ajax)
       THEN client' = [client EXCEPT !.ajax = @ + 1]
       ELSE client' = [pc |-> "done", method |-> client.method, ajax |-> client.ajax,
                       outcome |-> o, completion |-> request(o)]
    /\ UNCHANGED <<currentAOI, analysisResults, loadingVisible, provinceSelect,
                   citySelect, drawnItems, inflight, task, returned>>
    /\ UNCHANGED page

----------------------------------------------------------------------------
(* Bookkeeping of one invocation of an orchestration function *)

IdleTask ==
    [op |-> "none", atype |-> "-", shows |-> 0, hides |-> 0,
     vegCalls |-> 0, lcCalls |-> 0, vegRes |-> "none", lcRes |-> "none",
     alerts |-> {}, displayed |-> FALSE, latest |-> FALSE, handler |-> FALSE]

NewTask(op, atype) == [IdleTask EXCEPT !.op = op, !.atype = atype]

NoReturn == [task |-> 0, log |-> IdleTask, ret |-> "-", keys |-> {}]

\* showAlert(message, severity)
Alert(tk, severity) == [tk EXCEPT !.alerts = @ \cup {severity}]

\* showLoading(...), then one endpoint method of apiClient.
ShowAndRequest(tk, ep) ==
    [tk EXCEPT !.shows = @ + 1,
               !.vegCalls = @ + (IF ep = "vegetation" THEN 1 ELSE 0),
               !.lcCalls = @ + (IF ep = "landcover" THEN 1 ELSE 0)]

Ajax(t, ep, arg) == [task |-> t, ep |-> ep, arg |-> arg]

\* Mutant of HidesLoading: hideLoading() is called on the success path only.
HidesOnSuccessOnly(res) == res.success

\* Whether the function calls hideLoading() when its await resumes with
\* response res: the call precedes the branch on response.success.
HidesLoading(res) == TRUE

AfterHide(tk, res) == IF HidesLoading(res) THEN [tk EXCEPT !.hides = @ + 1] ELSE tk
VisibleAfterHide(res) == IF HidesLoading(res) THEN FALSE ELSE loadingVisible

\* Mutant of Fallback: every function returns null when its request failed.
FallbackAlwaysNull(op) == "null"

\* What a single-request function returns when its request failed.
Fallback(op) == IF op \in {"loadProvinces", "loadCities"} THEN "{}" ELSE "null"

\* A new invocation takes the first slot that holds none.
FreeSlot(t) ==
    /\ task[t].op = "none"
    /\ \A u \in Tasks : u < t => task[u].op # "none"

\* The invocation of slot t returns (ret = "throw": throws) with log tk.
Finish(t, tk, ret, results) ==
    /\ task' = [task EXCEPT ![t] = IdleTask]
    /\ returned' = [task |-> t, log |-> tk, ret |-> ret, keys |-> DOMAIN results]

\* The invocation of slot t suspends at its next request.
Suspend(t, tk) ==
    /\ task' = [task EXCEPT ![t] = tk]
    /\ returned' = NoReturn

----------------------------------------------------------------------------
(* The results accumulator *)

EmptyResults == [k \in {} |-> NoArg]

VegetationKeys == {"vegetation", "rgb_tile_url", "collection_size"}

\* analysisResults.k = v for every k of ks
Store(ar, ks, v) == [k \in DOMAIN ar \cup ks |-> IF k \in ks THEN v ELSE ar[k]]

\* Object.keys(analysisResults).length > 0
ShouldDisplay(ar) == Cardinality(DOMAIN ar) > 0

\* Mutant of AOIMissing: the guard is missing.
AOINeverMissing(aoi) == FALSE

\* if (!currentAOI)
AOIMissing(aoi) == aoi = NullAOI

RunsVegetation(atype) == atype = "vegetation" \/ atype = "combined"
RunsLandCover(atype) == atype = "landcover" \/ atype = "combined"

\* Mutant of FirstAnalyses: both sub-analyses are started together.
FirstAnalysesTogether(atype) ==
    (IF RunsVegetation(atype) THEN {"vegetation"} ELSE {})
    \cup (IF RunsLandCover(atype) THEN {"landcover"} ELSE {})

\* The sub-analyses runCompleteAnalysis has called when it first suspends:
\* it awaits the vegetation analysis before it looks at the land cover.
FirstAnalyses(atype) ==
    IF RunsVegetation(atype) THEN {"vegetation"}
    ELSE IF RunsLandCover(atype) THEN {"landcover"}
    ELSE {}

----------------------------------------------------------------------------
(* The selectors *)

Options(select) == {select[i] : i \in DOMAIN select}

\* The text of the option of #provinceSelect (lines 141, 144) and of
\* #citySelect (lines 166, 167, 170) with value v.
ProvinceText(v) == IF v = "" THEN "-- Select Province --" ELSE NameOf(v)
CityText(v) ==
    IF v = "" THEN "-- Select City --"
    ELSE IF v = "use_province" THEN "-- Use Province --"
    ELSE NameOf(v)

\* $('#provinceSelect option:selected').text() and
\* $('#citySelect option:selected').text(): empty when nothing is selected.
SelectedProvinceText ==
    IF provinceValue \in Options(provinceSelect)
    THEN Str(ProvinceText(provinceValue)) ELSE Str("")
SelectedCityText ==
    IF cityValue \in Options(citySelect) THEN Str(CityText(cityValue)) ELSE Str("")

\* Line 211: the name given to the AOI when the geometry has arrived.
AOIName == JsOr(SelectedCityText, SelectedProvinceText).v

\* The first ready handler before it has run: nothing requested, no notice
\* shown, loadProvincesFromAPI not called.
BootStart == [pc |-> "start", notices |-> {}, loads |-> 0]

----------------------------------------------------------------------------
Init ==
    /\ currentAOI = NullAOI
    /\ analysisResults = EmptyResults
    /\ loadingVisible = FALSE
    /\ provinceSelect = <<"">>
    /\ citySelect = <<"">>
    /\ drawnItems = {}
    /\ inflight = {}
    /\ task = [t \in Tasks |-> IdleTask]
    /\ returned = NoReturn
    /\ client = ClientIdle
    /\ currentAOI_name = NoArg
    /\ provinceValue = ""
    /\ cityValue = ""
    /\ cityDisabled = TRUE
    /\ handlers = [c \in Controls |-> 0]
    /\ wirings = 0
    /\ boot = BootStart

----------------------------------------------------------------------------
(* What an await of an endpoint method resumes with *)

Response(o) == request(o).value

----------------------------------------------------------------------------
(* loadProvincesFromAPI *)

loadProvincesFromAPI(t) ==
    /\ FreeSlot(t)
    /\ loadingVisible' = TRUE
    /\ Suspend(t, ShowAndRequest(NewTask("loadProvinces", "-"), "provinces"))
    /\ inflight' = inflight \cup {Ajax(t, "provinces", NoArg)}
    /\ UNCHANGED <<currentAOI, analysisResults, provinceSelect, citySelect, drawnItems,
                   client>>
    /\ UNCHANGED page

\* The await of line 135 resumes.  Object.entries(null) throws after the
\* selector was reset to its placeholder.
loadProvinces_resume(r, o) ==
    /\ r \in inflight
    /\ task[r.task].op = "loadProvinces"
    /\ inflight' = inflight \ {r}
    /\ LET res == Response(o)
           tk == AfterHide(task[r.task], res)
       IN  /\ loadingVisible' = VisibleAfterHide(res)
           /\ IF res.success
              THEN /\ provinceSelect' =
                         IF res.data = "null" THEN <<"">> ELSE <<"">> \o ProvinceList
                   /\ provinceValue' = ""
                   /\ Finish(r.task, tk, IF res.data = "null" THEN "throw" ELSE "data",
                             analysisResults)
              ELSE /\ Finish(r.task, Alert(tk, "danger"), Fallback("loadProvinces"),
                             analysisResults)
                   /\ UNCHANGED <<provinceSelect, provinceValue>>
    /\ UNCHANGED <<currentAOI, analysisResults, citySelect, drawnItems, client>>
    /\ UNCHANGED <<currentAOI_name, cityValue, cityDisabled, handlers, wirings, boot>>

----------------------------------------------------------------------------
(* loadCitiesFromAPI *)

\* Mutant of CityOptions: the options are appended to those present.
CityOptionsAppended(old, entries) == old \o <<"", "use_province">> \o entries

\* Lines 166-171: html() replaces the options by the first placeholder,
\* then the second placeholder and one option per entry are appended.
CityOptions(old, entries) == <<"", "use_province">> \o entries

loadCitiesFromAPI(t, provinceCode) ==
    /\ FreeSlot(t)
    /\ loadingVisible' = TRUE
    /\ Suspend(t, ShowAndRequest(NewTask("loadCities", "-"), "cities"))
    /\ inflight' = inflight \cup {Ajax(t, "cities", provinceCode)}
    /\ UNCHANGED <<currentAOI, analysisResults, provinceSelect, citySelect, drawnItems,
                   client>>
    /\ UNCHANGED page

\* The await of line 160 resumes.  When the function was called by the
\* change handler of #provinceSelect and returns, the handler goes on to
\* line 480 and enables #citySelect; when it throws (Object.entries(null)),
\* the handler ends there.
loadCities_resume(r, o) ==
    /\ r \in inflight
    /\ task[r.task].op = "loadCities"
    /\ inflight' = inflight \ {r}
    /\ LET res == Response(o)
           tk == AfterHide(task[r.task], res)
       IN  /\ loadingVisible' = VisibleAfterHide(res)
           /\ IF res.success
              THEN /\ citySelect' =
                         CityOptions(citySelect,
                                     IF res.data = "null" THEN <<>> ELSE CitiesOf(r.arg))
                   /\ cityValue' = ""
                   /\ Finish(r.task, tk, IF res.data = "null" THEN "throw" ELSE "data",
                             analysisResults)
                   /\ cityDisabled' =
                         IF task[r.task].handler /\ res.data # "null"
                         THEN FALSE ELSE cityDisabled
              ELSE /\ Finish(r.task, Alert(tk, "danger"), Fallback("loadCities"),
                             analysisResults)
                   /\ cityDisabled' = IF task[r.task].handler THEN FALSE ELSE cityDisabled
                   /\ UNCHANGED <<citySelect, cityValue>>
    /\ UNCHANGED <<currentAOI, analysisResults, provinceSelect, drawnItems, client>>
    /\ UNCHANGED <<currentAOI_name, provinceValue, handlers, wirings, boot>>

----------------------------------------------------------------------------
(* loadRegionGeometryFromAPI *)

\* The request of getRegionGeometry(endpoint, code).
GeometryOf(endpoint) == IF endpoint = "city" THEN "geometry/city" ELSE "geometry/province"

loadRegionGeometryFromAPI(t, endpoint, code) ==
    /\ FreeSlot(t)
    /\ loadingVisible' = TRUE
    /\ Suspend(t, ShowAndRequest(NewTask("loadRegionGeometry", "-"), "geometry"))
    /\ inflight' = inflight \cup {Ajax(t, GeometryOf(endpoint), code)}
    /\ UNCHANGED <<currentAOI, analysisResults, provinceSelect, citySelect, drawnItems,
                   client>>
    /\ UNCHANGED page

\* response.success && response.data: the layer and the AOI are replaced by
\* those of the region the response describes.
loadRegionGeometry_resume(r, o) ==
    /\ r \in inflight
    /\ task[r.task].op = "loadRegionGeometry"
    /\ inflight' = inflight \ {r}
    /\ LET res == Response(o)
           tk == AfterHide(task[r.task], res)
       IN  /\ loadingVisible' = VisibleAfterHide(res)
           /\ IF res.success /\ res.data # "null"
              THEN /\ drawnItems' = {r.arg}
                   /\ currentAOI' = r.arg
                   /\ currentAOI_name' = AOIName
                   /\ Finish(r.task, Alert(tk, "success"), "data", analysisResults)
              ELSE /\ Finish(r.task, Alert(tk, "danger"), Fallback("loadRegionGeometry"),
                             analysisResults)
                   /\ UNCHANGED <<currentAOI, drawnItems, currentAOI_name>>
    /\ UNCHANGED <<analysisResults, provinceSelect, citySelect, client>>
    /\ UNCHANGED <<provinceValue, cityValue, cityDisabled, handlers, wirings, boot>>

----------------------------------------------------------------------------
(* runVegetationAnalysisAPI and runLandCoverAnalysisAPI, called on their own *)

runVegetationAnalysisAPI(t) ==
    /\ FreeSlot(t)
    /\ IF AOIMissing(currentAOI)
       THEN /\ Finish(t, Alert(NewTask("runVegetation", "-"), "warning"), "null",
                      analysisResults)
            /\ UNCHANGED <<loadingVisible, inflight>>
       ELSE /\ loadingVisible' = TRUE
            /\ Suspend(t, ShowAndRequest(NewTask("runVegetation", "-"), "vegetation"))
            /\ inflight' = inflight \cup {Ajax(t, "vegetation", currentAOI)}
    /\ UNCHANGED <<currentAOI, analysisResults, provinceSelect, citySelect, drawnItems,
                   client>>
    /\ UNCHANGED page

\* Line 257 reads response.data.collection_size: a TypeError when the body
\* of the successful response is null.
runVegetation_resume(r, o) ==
    /\ r \in inflight
    /\ task[r.task].op = "runVegetation"
    /\ inflight' = inflight \ {r}
    /\ LET res == Response(o)
           tk == [AfterHide(task[r.task], res) EXCEPT
                     !.vegRes = IF res.success THEN "ok" ELSE "fail"]
       IN  /\ loadingVisible' = VisibleAfterHide(res)
           /\ IF res.success
              THEN IF res.data = "null"
                   THEN Finish(r.task, tk, "throw", analysisResults)
                   ELSE Finish(r.task, Alert(tk, "success"), "data", analysisResults)
              ELSE Finish(r.task, Alert(tk, "danger"), Fallback("runVegetation"),
                          analysisResults)
    /\ UNCHANGED <<currentAOI, analysisResults, provinceSelect, citySelect, drawnItems,
                   client>>
    /\ UNCHANGED page

runLandCoverAnalysisAPI(t) ==
    /\ FreeSlot(t)
    /\ IF AOIMissing(currentAOI)
       THEN /\ Finish(t, Alert(NewTask("runLandCover", "-"), "warning"), "null",
                      analysisResults)
            /\ UNCHANGED <<loadingVisible, inflight>>
       ELSE /\ loadingVisible' = TRUE
            /\ Suspend(t, ShowAndRequest(NewTask("runLandCover", "-"), "landcover"))
            /\ inflight' = inflight \cup {Ajax(t, "landcover", currentAOI)}
    /\ UNCHANGED <<currentAOI, analysisResults, provinceSelect, citySelect, drawnItems,
                   client>>
    /\ UNCHANGED page

runLandCover_resume(r, o) ==
    /\ r \in inflight
    /\ task[r.task].op = "runLandCover"
    /\ inflight' = inflight \ {r}
    /\ LET res == Response(o)
           tk == [AfterHide(task[r.task], res) EXCEPT
                     !.lcRes = IF res.success THEN "ok" ELSE "fail"]
       IN  /\ loadingVisible' = VisibleAfterHide(res)
           /\ IF res.success
              THEN Finish(r.task, Alert(tk, "success"),
                          IF res.data = "null" THEN "null" ELSE "data", analysisResults)
              ELSE Finish(r.task, Alert(tk, "danger"), Fallback("runLandCover"),
                          analysisResults)
    /\ UNCHANGED <<currentAOI, analysisResults, provinceSelect, citySelect, drawnItems,
                   client>>
    /\ UNCHANGED page

----------------------------------------------------------------------------
(* runCompleteAnalysis *)

\* The sub-analysis functions called for eps, each showing the indicator
\* and sending its request.
StartAll(tk, eps) ==
    LET a == IF "vegetation" \in eps THEN ShowAndRequest(tk, "vegetation") ELSE tk
    IN  IF "landcover" \in eps THEN ShowAndRequest(a, "landcover") ELSE a

\* Lines 337-345, then the return.
DisplayAndFinish(t, tk, results) ==
    Finish(t, [tk EXCEPT !.displayed = ShouldDisplay(results)], "undefined", results)

\* The invocation is marked as the latest one that has reset the
\* accumulator (line 316): every other invocation still running started
\* before it.
runCompleteAnalysis(t, atype) ==
    /\ FreeSlot(t)
    /\ IF AOIMissing(currentAOI)
       THEN /\ Finish(t, Alert(NewTask("runComplete", atype), "warning"), "undefined",
                      analysisResults)
            /\ UNCHANGED <<analysisResults, loadingVisible, inflight>>
       ELSE /\ analysisResults' = EmptyResults
            /\ IF FirstAnalyses(atype) = {}
               THEN /\ DisplayAndFinish(t, NewTask("runComplete", atype), EmptyResults)
                    /\ UNCHANGED <<loadingVisible, inflight>>
               ELSE /\ loadingVisible' = TRUE
                    /\ task' = [u \in Tasks |->
                                  IF u = t
                                  THEN StartAll([NewTask("runComplete", atype)
                                                    EXCEPT !.latest = TRUE],
                                                FirstAnalyses(atype))
                                  ELSE [task[u] EXCEPT !.latest = FALSE]]
                    /\ returned' = NoReturn
                    /\ inflight' = inflight \cup
                                     {Ajax(t, ep, currentAOI) : ep \in FirstAnalyses(atype)}
    /\ UNCHANGED <<currentAOI, provinceSelect, citySelect, drawnItems, client>>
    /\ UNCHANGED page

\* The await of line 321 resumes inside runVegetationAnalysisAPI; its
\* TypeError on a null body is caught at line 347.  Otherwise the land
\* cover analysis is called next, or the results are displayed.
runComplete_vegetation_resume(r, o) ==
    /\ r \in inflight
    /\ task[r.task].op = "runComplete"
    /\ r.ep = "vegetation"
    /\ LET res == Response(o)
           tk == [AfterHide(task[r.task], res) EXCEPT
                     !.vegRes = IF res.success THEN "ok" ELSE "fail"]
           tk2 == Alert(tk, IF res.success THEN "success" ELSE "danger")
           stored == IF res.success
                     THEN Store(analysisResults, VegetationKeys, r.arg)
                     ELSE analysisResults
       IN  IF res.success /\ res.data = "null"
           THEN /\ Finish(r.task, Alert(tk, "danger"), "undefined", analysisResults)
                /\ loadingVisible' = VisibleAfterHide(res)
                /\ inflight' = inflight \ {r}
                /\ UNCHANGED analysisResults
           ELSE /\ analysisResults' = stored
                /\ IF RunsLandCover(task[r.task].atype)
                   THEN IF AOIMissing(currentAOI)
                        THEN /\ DisplayAndFinish(r.task, Alert(tk2, "warning"), stored)
                             /\ loadingVisible' = VisibleAfterHide(res)
                             /\ inflight' = inflight \ {r}
                        ELSE /\ loadingVisible' = TRUE
                             /\ Suspend(r.task, ShowAndRequest(tk2, "landcover"))
                             /\ inflight' = (inflight \ {r}) \cup
                                              {Ajax(r.task, "landcover", currentAOI)}
                   ELSE /\ DisplayAndFinish(r.task, tk2, stored)
                        /\ loadingVisible' = VisibleAfterHide(res)
                        /\ inflight' = inflight \ {r}
    /\ UNCHANGED <<currentAOI, provinceSelect, citySelect, drawnItems, client>>
    /\ UNCHANGED page

\* The await of line 331 resumes inside runLandCoverAnalysisAPI.
runComplete_landcover_resume(r, o) ==
    /\ r \in inflight
    /\ task[r.task].op = "runComplete"
    /\ r.ep = "landcover"
    /\ inflight' = inflight \ {r}
    /\ LET res == Response(o)
           tk == [AfterHide(task[r.task], res) EXCEPT
                     !.lcRes = IF res.success THEN "ok" ELSE "fail"]
           tk2 == Alert(tk, IF res.success THEN "success" ELSE "danger")
           stored == IF res.success /\ res.data # "null"
                     THEN Store(analysisResults, {"landcover"}, r.arg)
                     ELSE analysisResults
       IN  /\ analysisResults' = stored
           /\ loadingVisible' = VisibleAfterHide(res)
           /\ DisplayAndFinish(r.task, tk2, stored)
    /\ UNCHANGED <<currentAOI, provinceSelect, citySelect, drawnItems, client>>
    /\ UNCHANGED page

----------------------------------------------------------------------------
(* The page: user events and other scripts call the orchestration functions *)

\* A step of the page, with provinces P, region requests R and $.ajax
\* outcomes O.
NextOver(P, R, O) ==
    \/ \E t \in Tasks : loadProvincesFromAPI(t)
    \/ \E t \in Tasks, p \in P : loadCitiesFromAPI(t, p)
    \/ \E t \in Tasks, rr \in R : loadRegionGeometryFromAPI(t, rr[1], rr[2])
    \/ \E t \in Tasks : runVegetationAnalysisAPI(t)
    \/ \E t \in Tasks : runLandCoverAnalysisAPI(t)
    \/ \E t \in Tasks, a \in AnalysisTypes : runCompleteAnalysis(t, a)
    \/ \E r \in inflight, o \in O : loadProvinces_resume(r, o)
    \/ \E r \in inflight, o \in O : loadCities_resume(r, o)
    \/ \E r \in inflight, o \in O : loadRegionGeometry_resume(r, o)
    \/ \E r \in inflight, o \in O : runVegetation_resume(r, o)
    \/ \E r \in inflight, o \in O : runLandCover_resume(r, o)
    \/ \E r \in inflight, o \in O : runComplete_vegetation_resume(r, o)
    \/ \E r \in inflight, o \in O : runComplete_landcover_resume(r, o)

Next == NextOver(ProvinceCodes, RegionRequests, Outcomes)

Spec == Init /\ [][Next]_vars

\* The request of slot t settles with an outcome of O.
Settle(t, O) ==
    \E r \in inflight, o \in O :
        /\ r.task = t
        /\ \/ loadProvinces_resume(r, o)
           \/ loadCities_resume(r, o)
           \/ loadRegionGeometry_resume(r, o)
           \/ runVegetation_resume(r, o)
           \/ runLandCover_resume(r, o)
           \/ runComplete_vegetation_resume(r, o)
           \/ runComplete_landcover_resume(r, o)

\* One outcome of each kind the orchestration functions tell apart: a body,
\* a null body, a failure.
FairOutcomes ==
    {o \in Outcomes : o.kind = "ok"
                      \/ (~o.responseJSON.json /\ o.statusText = Str("timeout"))}

\* The page with one province and one region to load.
OneRegionNext == NextOver({"P1"}, {<<"province", "P1">>}, FairOutcomes)

OneRegionSpec == Init /\ [][OneRegionNext]_vars

\* Every $.ajax settles: with its response, or at its timeout
\* (API_CONFIG.timeout).
FairSpec ==
    OneRegionSpec /\ \A t \in Tasks : WF_vars(Settle(t, FairOutcomes))

----------------------------------------------------------------------------
(* The page as the user drives it: the two $(document).ready handlers and *)
(* the four controls wired by updateEventHandlersForAPI                    *)

Orchestration ==
    <<currentAOI, analysisResults, loadingVisible, provinceSelect, citySelect,
      drawnItems, inflight, task, client>>

\* Mutant of Off: .off(event) removes no handler.
OffKeepsHandlers(n) == n

\* .off(event): every handler of the event is removed.
Off(n) == 0

\* .on(event, handler): one more handler.
On(n) == n + 1

\* How often one event on control c calls its orchestration function:
\* jQuery calls every attached handler once.
Triggered(c) == handlers[c]

updateEventHandlersForAPI ==
    /\ wirings < MaxWirings
    /\ handlers' = [c \in Controls |-> On(Off(handlers[c]))]
    /\ wirings' = wirings + 1
    /\ returned' = NoReturn
    /\ UNCHANGED Orchestration
    /\ UNCHANGED <<currentAOI_name, provinceValue, cityValue, cityDisabled, boot>>

\* The first ready handler runs: the health check is requested.
bootstrap ==
    /\ boot.pc = "start"
    /\ boot' = [boot EXCEPT !.pc = "health"]
    /\ returned' = NoReturn
    /\ UNCHANGED Orchestration
    /\ UNCHANGED <<currentAOI_name, provinceValue, cityValue, cityDisabled, handlers,
                   wirings>>

\* The health check settles (ee: the ee_initialized field of its body).
\* Line 446 reads health.data.ee_initialized: a TypeError when the body of
\* the successful response is null, which ends the handler.  Otherwise one
\* notice is shown and loadProvincesFromAPI is called.
bootstrap_resume(t, o, ee) ==
    /\ boot.pc = "health"
    /\ LET health == Response(o)
       IN  IF health.success /\ health.data = "null"
           THEN /\ boot' = [boot EXCEPT !.pc = "threw"]
                /\ returned' = NoReturn
                /\ UNCHANGED <<loadingVisible, inflight, task>>
           ELSE /\ FreeSlot(t)
                /\ boot' = [pc |-> "provinces",
                            notices |-> {IF health.success /\ ee
                                         THEN "success" ELSE "warning"},
                            loads |-> boot.loads + 1]
                /\ loadingVisible' = TRUE
                /\ Suspend(t, ShowAndRequest(NewTask("loadProvinces", "-"), "provinces"))
                /\ inflight' = inflight \cup {Ajax(t, "provinces", NoArg)}
    /\ UNCHANGED <<currentAOI, analysisResults, provinceSelect, citySelect, drawnItems,
                   client>>
    /\ UNCHANGED <<currentAOI_name, provinceValue, cityValue, cityDisabled, handlers,
                   wirings>>

\* The user selects option v of #provinceSelect; the change handler, when
\* attached, loads the cities of v or, for the placeholder, disables
\* #citySelect and empties it.
provinceSelect_change(t, v) ==
    /\ v \in Options(provinceSelect)
    /\ v # provinceValue
    /\ provinceValue' = v
    /\ IF Triggered("provinceSelect") = 0
       THEN /\ returned' = NoReturn
            /\ UNCHANGED <<loadingVisible, inflight, task, citySelect, cityValue,
                           cityDisabled>>
       ELSE IF v # ""
       THEN /\ FreeSlot(t)
            /\ loadingVisible' = TRUE
            /\ Suspend(t, ShowAndRequest([NewTask("loadCities", "-")
                                             EXCEPT !.handler = TRUE], "cities"))
            /\ inflight' = inflight \cup {Ajax(t, "cities", v)}
            /\ UNCHANGED <<citySelect, cityValue, cityDisabled>>
       ELSE /\ cityDisabled' = TRUE
            /\ citySelect' = <<"">>
            /\ cityValue' = ""
            /\ returned' = NoReturn
            /\ UNCHANGED <<loadingVisible, inflight, task>>
    /\ UNCHANGED <<currentAOI, analysisResults, provinceSelect, drawnItems, client>>
    /\ UNCHANGED <<currentAOI_name, handlers, wirings, boot>>

\* The user selects option v of #citySelect (no handler of this file).
citySelect_pick(v) ==
    /\ ~cityDisabled
    /\ v \in Options(citySelect)
    /\ v # cityValue
    /\ cityValue' = v
    /\ returned' = NoReturn
    /\ UNCHANGED Orchestration
    /\ UNCHANGED <<currentAOI_name, provinceValue, cityDisabled, handlers, wirings, boot>>

\* Lines 498-506: the region the click handler of #loadRegion asks for.
ClickEndpoint ==
    IF cityValue # "" /\ cityValue # "use_province" THEN "city" ELSE "province"
ClickCode == IF ClickEndpoint = "city" THEN cityValue ELSE provinceValue

loadRegion_click(t) ==
    /\ Triggered("loadRegion") > 0
    /\ IF provinceValue = ""
       THEN /\ FreeSlot(t)
            /\ Finish(t, Alert(NewTask("loadRegionClick", "-"), "warning"), "undefined",
                      analysisResults)
            /\ UNCHANGED <<currentAOI, analysisResults, loadingVisible, provinceSelect,
                           citySelect, drawnItems, inflight, client>>
            /\ UNCHANGED page
       ELSE loadRegionGeometryFromAPI(t, ClickEndpoint, ClickCode)

runAnalysis_click(t, atype) ==
    /\ Triggered("runAnalysis") > 0
    /\ runCompleteAnalysis(t, atype)

\* The snapshot downloadStatisticsReal serialises.
downloadStatisticsReal ==
    [region |-> currentAOI_name, area_km2 |-> currentAOI, results |-> analysisResults]

\* The click handler of #downloadStats; currentAOI.name throws while there
\* is no AOI.
downloadStats_click ==
    /\ Triggered("downloadStats") > 0
    /\ returned' =
          IF AOIMissing(currentAOI)
          THEN [task |-> 0, log |-> NewTask("downloadStatistics", "-"), ret |-> "throw",
                keys |-> {}]
          ELSE [task |-> 0, log |-> Alert(NewTask("downloadStatistics", "-"), "success"),
                ret |-> "undefined", keys |-> DOMAIN downloadStatisticsReal.results]
    /\ UNCHANGED <<currentAOI, analysisResults, loadingVisible, provinceSelect,
                   citySelect, drawnItems, inflight, task, client>>
    /\ UNCHANGED page

\* A step of the page, with selectable provinces P, analysis types A,
\* $.ajax outcomes O and values E of ee_initialized.
PageNextOver(P, A, O, E) ==
    \/ bootstrap
    \/ \E t \in Tasks, o \in O, ee \in E : bootstrap_resume(t, o, ee)
    \/ updateEventHandlersForAPI
    \/ \E t \in Tasks, v \in P \cup {""} : provinceSelect_change(t, v)
    \/ \E v \in Options(citySelect) : citySelect_pick(v)
    \/ \E t \in Tasks : loadRegion_click(t)
    \/ \E t \in Tasks, a \in A : runAnalysis_click(t, a)
    \/ downloadStats_click
    \/ \E r \in inflight, o \in O : loadProvinces_resume(r, o)
    \/ \E r \in inflight, o \in O : loadCities_resume(r, o)
    \/ \E r \in inflight, o \in O : loadRegionGeometry_resume(r, o)
    \/ \E r \in inflight, o \in O : runComplete_vegetation_resume(r, o)
    \/ \E r \in inflight, o \in O : runComplete_landcover_resume(r, o)

\* A response with a body, or a failure.
BodyOrFailure == {o \in FairOutcomes : o.kind = "fail" \/ o.body = "object"}

\* The page with one province to select and one analysis type.
PageNext == PageNextOver({"P1"}, {"combined"}, BodyOrFailure, BOOLEAN)

PageSpec == Init /\ [][PageNext]_vars

\* The page while the user works with the selectors and the Load Region
\* button only.
SelectorNext ==
    \/ bootstrap
    \/ \E t \in Tasks, o \in FairOutcomes, ee \in BOOLEAN : bootstrap_resume(t, o, ee)
    \/ updateEventHandlersForAPI
    \/ \E t \in Tasks, v \in ProvinceCodes \cup {""} : provinceSelect_change(t, v)
    \/ \E v \in Options(citySelect) : citySelect_pick(v)
    \/ \E t \in Tasks : loadRegion_click(t)
    \/ \E r \in inflight, o \in FairOutcomes : loadProvinces_resume(r, o)
    \/ \E r \in inflight, o \in FairOutcomes : loadCities_resume(r, o)
    \/ \E r \in inflight, o \in FairOutcomes : loadRegionGeometry_resume(r, o)

SelectorSpec == Init /\ [][SelectorNext]_vars

(* The client used on its own, through window.GEEApi.client *)

ClientNext ==
    \/ \E m \in EndpointMethods : client_call(m)
    \/ \E o \in Outcomes : client_settle(o)

ClientSpec == Init /\ [][ClientNext]_vars

----------------------------------------------------------------------------
(* Claims about GEEApiClient.request, checked under ClientSpec *)

ClientResult == client.completion.value

\* C1: request() never throws: for every outcome of its $.ajax call it
\* returns a result that is either {success: true, data} (a fulfilled call)
\* or {success: false, error} (a rejected one), never both, never neither.
C1_RequestReturnsTaggedResult ==
    client.pc = "done" =>
        /\ client.completion.type = "return"
        /\ \/ /\ client.outcome.kind = "ok"
              /\ ClientResult.success = TRUE
              /\ DOMAIN ClientResult = {"success", "data"}
           \/ /\ client.outcome.kind = "fail"
              /\ ClientResult.success = FALSE
              /\ DOMAIN ClientResult = {"success", "error"}

\* A network error with no JSON body and no status text came back as a
\* failure result.
C1_Witness ==
    /\ client.pc = "done"
    /\ client.outcome.kind = "fail"
    /\ ~client.outcome.responseJSON.json
    /\ client.outcome.statusText = Str("")
    /\ client.completion.type = "return"
    /\ ClientResult.success = FALSE

HasErrorField(rj) == rj.json /\ rj.error.t # "undefined"

\* C2 as stated: the error text is the body's `error` field whenever the
\* failure carries one, else the status text, else 'Network error'.
C2_ErrorFieldAlwaysWins ==
    (client.pc = "done" /\ client.outcome.kind = "fail") =>
        ClientResult.error =
            IF HasErrorField(client.outcome.responseJSON)
            THEN client.outcome.responseJSON.error
            ELSE IF client.outcome.statusText # Str("")
                 THEN client.outcome.statusText
                 ELSE Str("Network error")

\* C2, amended: the error text is the body's `error` field when that field
\* is a non-empty string; otherwise the status text when it is non-empty;
\* otherwise 'Network error'.  An empty `error` field falls through.
C2_ErrorTextPriority ==
    (client.pc = "done" /\ client.outcome.kind = "fail") =>
        ClientResult.error =
            IF /\ HasErrorField(client.outcome.responseJSON)
               /\ client.outcome.responseJSON.error # Str("")
            THEN client.outcome.responseJSON.error
            ELSE IF client.outcome.statusText # Str("")
                 THEN client.outcome.statusText
                 ELSE Str("Network error")

\* A failure whose body carries an empty error field and whose status text
\* is set: the status text is returned.
C2_Witness ==
    /\ client.pc = "done"
    /\ client.outcome.kind = "fail"
    /\ HasErrorField(client.outcome.responseJSON)
    /\ client.outcome.responseJSON.error = Str("")
    /\ client.outcome.statusText = Str("timeout")
    /\ ClientResult.error = Str("timeout")

----------------------------------------------------------------------------
(* Claims about the orchestration functions.  C4, C6, C7, C12 and C13 are  *)
(* checked under OneRegionSpec (they hold under Spec too), C5 under         *)
(* FairSpec, and C8, C9, C10 and C11 are refuted under Spec.                *)

SingleRequestOps ==
    {"loadProvinces", "loadCities", "loadRegionGeometry", "runVegetation", "runLandCover"}
AnalysisOps == {"runVegetation", "runLandCover", "runComplete"}
Returned == returned.task # 0
Log == returned.log

\* C4 as stated: every invocation of an orchestration function has called
\* hideLoading exactly once when it returns, on every path.
C4_HiddenExactlyOnce ==
    Returned => Log.hides = 1

\* C4, amended: an invocation has called hideLoading once for each of its
\* showLoading calls when it returns or throws: once in the five
\* single-request functions on the success and request-failure paths, never
\* on a precondition-failure path (which shows nothing either), and in
\* runCompleteAnalysis once per sub-analysis request it sent (0, 1 or 2).
C4_HiddenOncePerShow ==
    Returned =>
        /\ Log.hides = Log.shows
        /\ Log.op \in SingleRequestOps =>
              Log.hides = IF "warning" \in Log.alerts THEN 0 ELSE 1
        /\ Log.op = "runComplete" =>
              /\ Log.hides = Log.vegCalls + Log.lcCalls
              /\ "warning" \in Log.alerts => Log.hides = 0

\* A 'combined' run has returned after both of its requests, the second of
\* them failed: two hideLoading calls.
C4_Witness ==
    /\ Returned
    /\ Log.op = "runComplete"
    /\ Log.atype = "combined"
    /\ Log.lcRes = "fail"
    /\ Log.hides = 2

Idle == \A t \in Tasks : task[t].op = "none"

\* C5: an operation that has shown the loading indicator eventually calls
\* hideLoading and returns, whatever its responses are, given that every
\* $.ajax settles; and whenever no operation is in flight the indicator is
\* hidden.
C5_LoadingEnds ==
    /\ \A t \in Tasks :
          (task[t].op # "none") ~>
              (task[t].op = "none" /\ returned.task = t /\ Log.hides = Log.shows)
    /\ [](Idle => ~loadingVisible)

\* An operation has returned from a failed request and nothing is in
\* flight: the indicator is hidden.
C5_Witness ==
    /\ Returned
    /\ "danger" \in Log.alerts
    /\ Log.shows = 1
    /\ Log.hides = 1
    /\ Idle
    /\ ~loadingVisible

\* C6: while no AOI is selected, no analysis request is on the network and
\* no analysis function is suspended in Loading; an analysis function that
\* is called returns at once, having shown a 'warning' alert and nothing
\* else, without showLoading and without a call of either endpoint.
C6_NoAOINoRequest ==
    currentAOI = NullAOI =>
        /\ \A r \in inflight : r.ep \notin {"vegetation", "landcover"}
        /\ \A t \in Tasks : task[t].op \notin AnalysisOps
        /\ (Returned /\ Log.op \in AnalysisOps) =>
              /\ Log.alerts = {"warning"}
              /\ Log.shows = 0
              /\ Log.vegCalls = 0
              /\ Log.lcCalls = 0
              /\ returned.ret = IF Log.op = "runComplete" THEN "undefined" ELSE "null"

\* runCompleteAnalysis was called without an AOI while another operation
\* (a region load) was in flight, and returned with the warning.
C6_Witness ==
    /\ currentAOI = NullAOI
    /\ Returned
    /\ Log.op = "runComplete"
    /\ Log.alerts = {"warning"}
    /\ inflight # {}

Mine(t) == {r \in inflight : r.task = t}

\* C7: an invocation of runCompleteAnalysis has at most one request in
\* flight, and its land cover request is sent only once its vegetation
\* request, if it sends one, has resolved.
C7_LandCoverAfterVegetation ==
    /\ \A t \in Tasks :
          task[t].op = "runComplete" =>
              /\ Cardinality(Mine(t)) <= 1
              /\ (task[t].lcCalls > 0 /\ RunsVegetation(task[t].atype)) =>
                    (task[t].vegRes # "none" /\ \A r \in Mine(t) : r.ep = "landcover")
    /\ (Returned /\ Log.op = "runComplete" /\ Log.lcCalls > 0
          /\ RunsVegetation(Log.atype)) => Log.vegRes # "none"

\* A 'combined' run awaits its land cover request after a failed vegetation
\* request.
C7_Witness ==
    \E t \in Tasks :
        /\ task[t].op = "runComplete"
        /\ task[t].atype = "combined"
        /\ task[t].vegRes = "fail"
        /\ \E r \in Mine(t) : r.ep = "landcover"

\* C8 as stated: a 'combined' run whose vegetation request succeeded and
\* whose land cover request failed returns with the vegetation results in
\* the accumulator and has called displayResults.
C8_VegetationKeptOnLandCoverFailure ==
    (Returned /\ Log.op = "runComplete" /\ Log.atype = "combined"
       /\ Log.vegRes = "ok" /\ Log.lcRes = "fail") =>
        /\ VegetationKeys \subseteq returned.keys
        /\ Log.displayed

\* C9 as stated: a run that passed the AOI check has called exactly the
\* endpoints its analysis type selects, each once.
C9_OnlySelectedAnalyses ==
    (Returned /\ Log.op = "runComplete" /\ "warning" \notin Log.alerts) =>
        /\ Log.vegCalls = IF RunsVegetation(Log.atype) THEN 1 ELSE 0
        /\ Log.lcCalls = IF RunsLandCover(Log.atype) THEN 1 ELSE 0

\* C10 as stated: a run calls displayResults only if one of its own
\* requests succeeded.
C10_DisplayOnlyOwnSuccess ==
    (Returned /\ Log.op = "runComplete" /\ Log.displayed) =>
        (Log.vegRes = "ok" \/ Log.lcRes = "ok")

\* The keys an invocation of runCompleteAnalysis may have stored itself.
OwnKeys(log) ==
    (IF log.vegRes = "ok" THEN VegetationKeys ELSE {})
    \cup (IF log.lcRes = "ok" THEN {"landcover"} ELSE {})

\* C11 as stated, for the invocation that was the last to start: every
\* other invocation that is or was running since its reset started before
\* it, so when it returns the accumulator holds only keys it stored itself.
C11_NoEntryOfEarlierInvocation ==
    (Returned /\ Log.op = "runComplete" /\ Log.latest) =>
        DOMAIN analysisResults \subseteq OwnKeys(Log)

\* C12: when loadCitiesFromAPI resumes with a successful response that has
\* a body, the city selector holds exactly the two placeholder options
\* followed by one option per entry of the response, in place of whatever
\* options it held before; so repeated loads never accumulate options.
C12_CityOptionsReplaced ==
    [][\A r \in inflight, o \in Outcomes :
          (o.kind = "ok" /\ o.body = "object" /\ loadCities_resume(r, o)) =>
              /\ citySelect' = <<"", "use_province">> \o CitiesOf(r.arg)
              /\ returned'.ret = "data"]_vars

\* A city load has returned its data into a selector of two placeholders
\* and one city while a further city load is still on the network.
C12_Witness ==
    /\ Returned
    /\ Log.op = "loadCities"
    /\ returned.ret = "data"
    /\ Len(citySelect) = 3
    /\ \E r \in inflight : r.ep = "cities"

\* The session state a failed request must leave alone.
SessionState == <<currentAOI, drawnItems, analysisResults, provinceSelect, citySelect>>

\* C13: when the request of a single-request function fails, the function
\* returns {} (loadProvincesFromAPI, loadCitiesFromAPI) or null (the other
\* three) and has shown a 'danger' alert; neither its call nor its return
\* changes currentAOI, the drawn layers, the accumulator or the options of
\* the selectors.  (The functions read nothing of a failure but
\* response.success, so one failing outcome stands for all.)
C13_FailureLeavesSessionState ==
    [][/\ \A r \in inflight, o \in FairOutcomes :
             (/\ o.kind = "fail"
              /\ \/ loadProvinces_resume(r, o)
                 \/ loadCities_resume(r, o)
                 \/ loadRegionGeometry_resume(r, o)
                 \/ runVegetation_resume(r, o)
                 \/ runLandCover_resume(r, o)) =>
                 /\ returned'.task = r.task
                 /\ returned'.ret =
                       IF returned'.log.op \in {"loadProvinces", "loadCities"}
                       THEN "{}" ELSE "null"
                 /\ "danger" \in returned'.log.alerts
                 /\ UNCHANGED SessionState
       /\ \A t \in Tasks :
             (task[t].op = "none" /\ task'[t].op \in SingleRequestOps) =>
                 UNCHANGED SessionState]_vars

\* A region load has failed after an earlier one had set the AOI and an
\* analysis had stored results: it returned null with the alert, and the
\* AOI, its layer and the results are still there.
C13_Witness ==
    /\ Returned
    /\ Log.op = "loadRegionGeometry"
    /\ returned.ret = "null"
    /\ "danger" \in Log.alerts
    /\ currentAOI # NullAOI
    /\ drawnItems # {}
    /\ DOMAIN analysisResults # {}

----------------------------------------------------------------------------
(* Claims about the page.  C16 is checked under PageSpec; C14, C17 and C20 *)
(* are refuted under SelectorSpec, C15, C18 and C19 under Spec.            *)

\* C14 as stated: the health check is requested before any province load;
\* when it settles, whatever its outcome, loadProvincesFromAPI is called
\* once and one notice has been shown: 'success' if the check succeeded and
\* reported ee_initialized, 'warning' in every other case; nothing is
\* loaded or shown by the handler after that.
C14_HealthThenProvincesOnce ==
    [][/\ boot.pc \in {"start", "health"} =>
             (boot.loads = 0 /\ \A r \in inflight : r.ep # "provinces")
       /\ \A t \in Tasks, o \in Outcomes, ee \in BOOLEAN :
             bootstrap_resume(t, o, ee) =>
                 /\ boot'.loads = 1
                 /\ Ajax(t, "provinces", NoArg) \in inflight'
                 /\ boot'.notices =
                       {IF o.kind = "ok" /\ o.body = "object" /\ ee
                        THEN "success" ELSE "warning"}
       /\ boot.pc \notin {"start", "health"} => boot' = boot]_vars

\* C16: once updateEventHandlersForAPI has been called, however often, each
\* of the four controls has exactly one handler, so one event on it calls
\* its orchestration function exactly once.
C16_OneHandlerPerControl ==
    wirings > 0 =>
        \A c \in Controls : handlers[c] = 1 /\ Triggered(c) = 1

\* After the second call of updateEventHandlersForAPI, a click on
\* #downloadStats has run downloadStatisticsReal.
C16_Witness ==
    /\ wirings = MaxWirings
    /\ \A c \in Controls : handlers[c] = 1
    /\ returned.log.op = "downloadStatistics"
    /\ returned.ret = "undefined"

\* C17 as stated: when no city load is pending and #citySelect is enabled,
\* its options are the placeholders and cities of the selected province.
C17_EnabledCitiesOfSelectedProvince ==
    ((\A r \in inflight : r.ep # "cities") /\ ~cityDisabled) =>
        \A v \in Options(citySelect) :
            \/ v \in {"", "use_province"}
            \/ provinceValue \in ProvinceCodes /\ v \in Options(CitiesOf(provinceValue))

\* C20 as stated: when a region load of the Load Region button succeeds,
\* the AOI is named after the region whose geometry was requested: the city
\* for endpoint 'city', the province for endpoint 'province'.
C20_AOINamedAfterRequestedRegion ==
    [][\A r \in inflight, o \in Outcomes :
          (o.kind = "ok" /\ o.body = "object" /\ loadRegionGeometry_resume(r, o)) =>
              currentAOI_name' = IF r.ep = GeometryOf("city")
                                 THEN CityText(r.arg) ELSE ProvinceText(r.arg)]_vars

\* C15 as stated: currentAOI does not change while an analysis operation
\* has started and not returned, and the land cover request of a 'combined'
\* run carries the AOI its vegetation request carried.
C15_AOIStableDuringAnalysis ==
    [][/\ (\E t \in Tasks : task[t].op \in AnalysisOps) => currentAOI' = currentAOI
       /\ \A r \in inflight \ inflight', q \in inflight' \ inflight :
             (r.ep = "vegetation" /\ q.ep = "landcover" /\ q.task = r.task) =>
                 q.arg = r.arg]_vars

\* C18 as stated: the loading indicator is visible whenever an operation
\* awaits its response.
C18_VisibleWhileAwaiting ==
    (\E t \in Tasks : task[t].op # "none") => loadingVisible

\* C19 as stated: every entry of the accumulator was computed for the AOI
\* in currentAOI, so the snapshot of downloadStatisticsReal pairs results
\* with the region they belong to.
C19_ResultsOfCurrentAOI ==
    \A k \in DOMAIN downloadStatisticsReal.results :
        downloadStatisticsReal.results[k] = downloadStatisticsReal.area_km2

====
